---- MODULE Spec2Model ----
(***************************************************************************)
(* Credential service of the webserver: register_user and login            *)
(* (src/webserver/src/services/user_service.rs), run by concurrent request *)
(* handlers (src/webserver/src/main.rs) against one users table.           *)
(*                                                                         *)
(* Strings that the code compares or hands to bcrypt (passwords, hashes)   *)
(* are sequences of tokens; usernames are plain strings.                   *)
(***************************************************************************)
EXTENDS Integers, Sequences, FiniteSets, TLC

\* ------------------------------------------------------------------ bounds

\* Number of calls that can be in flight at once.
MaxCalls == 2

\* bcrypt::DEFAULT_COST, the work factor hash_password passes to bcrypt::hash.
DEFAULT_COST == 12

Calls == 1..MaxCalls

\* The salts the random source produces. No operation of the service reads a
\* salt other than through verify_password, whose answer does not depend on it.
Salts == {"salt"}

Usernames == {"alice", "bob"}

Passwords == {<<"p", "w", "1">>, <<"p", "w", "2">>}

\* A password_hash column value that is not the output of bcrypt::hash.
MalformedHash == <<"not-a-bcrypt-hash">>

\* ------------------------------------------------------------------ bcrypt

\* The digest bcrypt derives from cost, salt and plaintext: an injective
\* function of the three (no collisions).
bcrypt_digest(cost, salt, plain) == <<cost, salt, plain>>

\* The "$2b$<cost>$<salt><digest>" string bcrypt::hash returns.
bcrypt_format(cost, salt, plain) ==
    <<"$2b$", cost, salt, bcrypt_digest(cost, salt, plain)>>

\* Whether a string has the structure bcrypt::verify can split.
bcrypt_wellformed(hash) ==
    /\ Len(hash) = 4
    /\ hash[1] = "$2b$"

BcryptOk(v) == [ok |-> TRUE, val |-> v]

BcryptErr == [ok |-> FALSE, val |-> <<>>]

\* Mutant: the password is stored as it came.
hash_password_plain(plain, salt, entropy) ==
    IF entropy THEN BcryptOk(plain) ELSE BcryptErr

\* fn hash_password: bcrypt::hash(plain, DEFAULT_COST); the salt is drawn
\* from the random source, and the call fails when that source is unavailable.
hash_password(plain, salt, entropy) ==
    IF entropy
    THEN BcryptOk(bcrypt_format(DEFAULT_COST, salt, plain))
    ELSE BcryptErr

\* Mutant: the arguments of bcrypt::verify the wrong way round.
verify_password_swapped(hash, plain) ==
    IF bcrypt_wellformed(plain)
    THEN [ok |-> TRUE, val |-> bcrypt_digest(plain[2], plain[3], hash) = plain[4]]
    ELSE [ok |-> FALSE, val |-> FALSE]

\* fn verify_password: bcrypt::verify(plain, hash); Err on a malformed hash,
\* otherwise whether the digest recomputed with the embedded cost and salt
\* equals the embedded digest.
verify_password(hash, plain) ==
    IF bcrypt_wellformed(hash)
    THEN [ok |-> TRUE, val |-> bcrypt_digest(hash[2], hash[3], plain) = hash[4]]
    ELSE [ok |-> FALSE, val |-> FALSE]

\* ------------------------------------------------------------------ results

\* The placeholder in the user field of a result that carries no User.
NoUser == [id |-> 0, username |-> "", password_hash |-> <<>>]

\* Result<User, diesel::result::Error>
Ok(u) == [kind |-> "Ok", user |-> u]

\* Error::NotFound
NotFound == [kind |-> "NotFound", user |-> NoUser]

\* Error::DatabaseError(DatabaseErrorKind::UniqueViolation, _)
UniqueViolation == [kind |-> "UniqueViolation", user |-> NoUser]

\* No value: the call has not returned (or never will, having panicked).
NoResult == [kind |-> "None", user |-> NoUser]

\* ------------------------------------------------------------------ state

VARIABLES
    users,          \* the users table: a set of rows [id, username, password_hash]
    users_id_seq,   \* the last id the table handed out
    entropy,        \* whether the random source bcrypt salts from is available
    pc,             \* pc[c]: where call c is
    op,             \* op[c]: "register" or "login"
    username,       \* username[c]: the call's username argument
    password,       \* password[c]: the call's password argument
    password_hash,  \* password_hash[c]: register_user's local password_hash
    user,           \* user[c]: the row login's lookup found (kept until the next call)
    result,         \* result[c]: the value the call returned
    pre,            \* pre[c]: what held when the call started (history)
    registered      \* <<username, password>> of every register that returned Ok (history)

vars == <<users, users_id_seq, entropy, pc, op, username, password,
          password_hash, user, result, pre, registered>>

callvars == <<op, username, password, pre>>

\* The rows of tbl with username u.
Rows(tbl, u) == {r \in tbl : r.username = u}

\* The unique index on users.username: whether inserting u is refused.
users_username_key(tbl, u) == Rows(tbl, u) # {}

\* Mutant: an upsert, the conflicting row replaced and returned.
insert_into_upsert(tbl, new_user, id) ==
    LET row == [id |-> id, username |-> new_user.username,
                password_hash |-> new_user.password_hash]
    IN  [result |-> Ok(row),
         table |-> (tbl \ Rows(tbl, new_user.username)) \cup {row}]

\* Mutant: the insert goes through whether or not the username is taken.
insert_into_unchecked(tbl, new_user, id) ==
    LET row == [id |-> id, username |-> new_user.username,
                password_hash |-> new_user.password_hash]
    IN  [result |-> Ok(row), table |-> tbl \cup {row}]

\* Mutant: a failed insert still removes the row it collided with.
insert_into_clobber(tbl, new_user, id) ==
    IF users_username_key(tbl, new_user.username)
    THEN [result |-> UniqueViolation, table |-> tbl \ Rows(tbl, new_user.username)]
    ELSE LET row == [id |-> id, username |-> new_user.username,
                     password_hash |-> new_user.password_hash]
         IN  [result |-> Ok(row), table |-> tbl \cup {row}]

\* diesel::insert_into(users::table).values(&new_user)
\*     .returning(User::as_returning()).get_result(conn):
\* one atomic statement, the new row returned, or the store's refusal.
insert_into(tbl, new_user, id) ==
    IF users_username_key(tbl, new_user.username)
    THEN [result |-> UniqueViolation, table |-> tbl]
    ELSE LET row == [id |-> id, username |-> new_user.username,
                     password_hash |-> new_user.password_hash]
         IN  [result |-> Ok(row), table |-> tbl \cup {row}]

\* Mutant: the lookup ignores the username filter.
first_any(tbl, u) ==
    IF tbl = {} THEN NotFound ELSE Ok(CHOOSE r \in tbl : TRUE)

\* users::table.filter(users::username.eq(username)).first::<User>(conn)
first(tbl, u) ==
    IF Rows(tbl, u) = {} THEN NotFound
    ELSE Ok(CHOOSE r \in Rows(tbl, u) : \A s \in Rows(tbl, u) : r.id <= s.id)

\* Mutant: a wrong password gets its own error.
login_rejected_dedicated == [kind |-> "AuthenticationFailure", user |-> NoUser]

\* login's answer to a password that does not verify: Err(Error::NotFound).
login_rejected == NotFound

Init ==
    /\ users = {}
    /\ users_id_seq = 0
    /\ entropy = TRUE
    /\ pc = [c \in Calls |-> "idle"]
    /\ op = [c \in Calls |-> "none"]
    /\ username = [c \in Calls |-> ""]
    /\ password = [c \in Calls |-> <<>>]
    /\ password_hash = [c \in Calls |-> <<>>]
    /\ user = [c \in Calls |-> NoUser]
    /\ result = [c \in Calls |-> NoResult]
    /\ pre = [c \in Calls |-> [present |-> FALSE, registered |-> FALSE]]
    /\ registered = {}

\* What the handler's call starts from: the arguments, and the history of
\* what held at that moment. A handler whose earlier call has returned (or
\* unwound) takes the next request.
Call(c, o, u, p) ==
    /\ pc[c] \in {"idle", "done", "panicked"}
    /\ op' = [op EXCEPT ![c] = o]
    /\ username' = [username EXCEPT ![c] = u]
    /\ password' = [password EXCEPT ![c] = p]
    /\ pre' = [pre EXCEPT ![c] = [present |-> users_username_key(users, u),
                                  registered |-> <<u, p>> \in registered]]

\* register_user is called; line 11: hash_password(password).expect(..)
register_user_hash(c, u, p) ==
    /\ Call(c, "register", u, p)
    /\ \E salt \in Salts :
         LET h == hash_password(p, salt, entropy)
         IN  IF h.ok
             THEN /\ password_hash' = [password_hash EXCEPT ![c] = h.val]
                  /\ pc' = [pc EXCEPT ![c] = "insert"]
             ELSE /\ password_hash' = [password_hash EXCEPT ![c] = <<>>]
                  /\ pc' = [pc EXCEPT ![c] = "panicked"]
    /\ user' = [user EXCEPT ![c] = NoUser]
    /\ result' = [result EXCEPT ![c] = NoResult]
    /\ UNCHANGED <<users, users_id_seq, entropy, registered>>

\* register_user, lines 12-22: the insert, the log line and the return.
register_user_insert(c) ==
    /\ pc[c] = "insert"
    /\ LET new_user == [username |-> username[c], password_hash |-> password_hash[c]]
           ins == insert_into(users, new_user, users_id_seq + 1)
       IN  /\ users' = ins.table
           /\ users_id_seq' = IF ins.result.kind = "Ok" THEN users_id_seq + 1
                              ELSE users_id_seq
           /\ result' = [result EXCEPT ![c] = ins.result]
           /\ registered' = IF ins.result.kind = "Ok"
                            THEN registered \cup {<<username[c], password[c]>>}
                            ELSE registered
    /\ pc' = [pc EXCEPT ![c] = "done"]
    /\ password_hash' = [password_hash EXCEPT ![c] = <<>>]
    /\ UNCHANGED <<entropy, user, callvars>>

\* login is called; lines 26-30 and 40: the lookup; its error is returned as it is.
login_lookup(c, u, p) ==
    /\ Call(c, "login", u, p)
    /\ LET found == first(users, u)
       IN  IF found.kind = "Ok"
           THEN /\ user' = [user EXCEPT ![c] = found.user]
                /\ pc' = [pc EXCEPT ![c] = "verify"]
                /\ result' = [result EXCEPT ![c] = NoResult]
           ELSE /\ user' = [user EXCEPT ![c] = NoUser]
                /\ pc' = [pc EXCEPT ![c] = "done"]
                /\ result' = [result EXCEPT ![c] = found]
    /\ password_hash' = [password_hash EXCEPT ![c] = <<>>]
    /\ UNCHANGED <<users, users_id_seq, entropy, registered>>

\* login, lines 31-38: verify_password(..).expect(..), then Ok(user) or the error.
login_verify(c) ==
    /\ pc[c] = "verify"
    /\ LET v == verify_password(user[c].password_hash, password[c])
       IN  IF ~v.ok
           THEN /\ pc' = [pc EXCEPT ![c] = "panicked"]
                /\ UNCHANGED result
           ELSE /\ pc' = [pc EXCEPT ![c] = "done"]
                /\ result' = [result EXCEPT ![c] =
                                IF v.val THEN Ok(user[c]) ELSE login_rejected]
    /\ UNCHANGED <<users, users_id_seq, entropy, password_hash, user, registered, callvars>>

Next ==
    \/ \E c \in Calls, u \in Usernames, p \in Passwords : register_user_hash(c, u, p)
    \/ \E c \in Calls : register_user_insert(c)
    \/ \E c \in Calls, u \in Usernames, p \in Passwords : login_lookup(c, u, p)
    \/ \E c \in Calls : login_verify(c)

Spec == Init /\ [][Next]_vars

\* ------------------------------------------------------------------ faults

\* The random source becomes unavailable, or available again.
EntropyFlip ==
    /\ entropy' = ~entropy
    /\ UNCHANGED <<users, users_id_seq, pc, op, username, password,
                   password_hash, user, result, pre, registered>>

\* Another client of the database writes a row whose password_hash is not a
\* bcrypt hash; the unique index applies to it as to any insert.
ForeignInsert(u) ==
    /\ ~users_username_key(users, u)
    /\ users' = users \cup {[id |-> users_id_seq + 1, username |-> u,
                             password_hash |-> MalformedHash]}
    /\ users_id_seq' = users_id_seq + 1
    /\ UNCHANGED <<entropy, pc, op, username, password,
                   password_hash, user, result, pre, registered>>

FaultNext ==
    \/ Next
    \/ EntropyFlip
    \/ \E u \in Usernames : ForeignInsert(u)

FaultSpec == Init /\ [][FaultNext]_vars

\* ------------------------------------------------------------------ claims

Finished(c) == pc[c] \in {"done", "panicked"}

\* Everything call c holds, and the steps in which c itself acts.
CallState(c) == <<pc[c], op[c], username[c], password[c], password_hash[c],
                  user[c], result[c], pre[c]>>

Stepped(c) == CallState(c)' # CallState(c)

\* Two register calls for one username that raced for it: both started while
\* the username was absent, both have returned, and no call but these two put a
\* row for it into the table.
Raced(c1, c2) ==
    /\ c1 # c2
    /\ op[c1] = "register" /\ op[c2] = "register"
    /\ username[c1] = username[c2]
    /\ ~pre[c1].present /\ ~pre[c2].present
    /\ Finished(c1) /\ Finished(c2)
    /\ Rows(users, username[c1]) \subseteq {result[c1].user, result[c2].user}

\* C1: of two register calls that raced for the same username, exactly one
\* holds a User and the other the store's unique violation: never both
\* succeed, never both fail.
C1_ExactlyOneRegisters ==
    \A c1 \in Calls, c2 \in Calls :
        Raced(c1, c2)
        => \/ result[c1].kind = "Ok" /\ result[c2] = UniqueViolation
           \/ result[c2].kind = "Ok" /\ result[c1] = UniqueViolation

C1_Witness ==
    \E c1 \in Calls, c2 \in Calls :
        /\ Raced(c1, c2)
        /\ pc[c1] = "done" /\ pc[c2] = "done"
        /\ password[c1] # password[c2]
        /\ result[c1].kind = "Ok" /\ result[c2] = UniqueViolation

\* C2: in every reachable state no two rows of the users table share a username.
C2_UniqueUsernames ==
    \A r \in users, s \in users : r.username = s.username => r = s

C2_Witness ==
    /\ Cardinality(users) = Cardinality(Usernames)
    /\ \E c \in Calls : pc[c] = "done" /\ op[c] = "register" /\ result[c] = UniqueViolation

\* C3: when register's insert runs for a username some register already
\* succeeded for, it returns the unique violation, no User, and the table is
\* left as it was: one row for the username, whose hash verifies against the
\* password of the registration that succeeded.
C3_DuplicateRegisterRefused ==
    [][\A c \in Calls :
         ( /\ pc[c] = "insert" /\ pc'[c] # "insert"
           /\ \E p \in Passwords : <<username[c], p>> \in registered )
         => /\ result'[c] = UniqueViolation
            /\ users' = users
            /\ Cardinality(Rows(users', username[c])) = 1
            /\ \A p \in Passwords : <<username[c], p>> \in registered =>
                 \A r \in Rows(users', username[c]) :
                    verify_password(r.password_hash, p) = [ok |-> TRUE, val |-> TRUE]
      ]_vars

C3_Witness ==
    \E c \in Calls, p \in Passwords :
        /\ pc[c] = "done" /\ op[c] = "register"
        /\ <<username[c], p>> \in registered
        /\ p # password[c]
        /\ pre[c].present
        /\ result[c] = UniqueViolation

\* The calls whose lookup found a row whose hash does not match the password.
WrongPassword(c) ==
    /\ op[c] = "login"
    /\ pc[c] = "done"
    /\ user[c] # NoUser
    /\ verify_password(user[c].password_hash, password[c]) = [ok |-> TRUE, val |-> FALSE]

C5_LoginAfterRegister ==
    \A c \in Calls :
        (op[c] = "login" /\ pre[c].registered /\ Finished(c))
        => /\ result[c].kind = "Ok"
           /\ result[c].user.username = username[c]
           /\ result[c].user \in users

C5_Witness ==
    \E c \in Calls, d \in Calls :
        /\ op[c] = "login" /\ pre[c].registered /\ pc[c] = "done"
        /\ result[c].kind = "Ok"
        /\ Cardinality(users) = Cardinality(Usernames)
        /\ c # d /\ op[d] = "register" /\ result[d] = UniqueViolation

\* C6: when login's lookup runs for a username with no row, the call ends
\* there with NotFound, whatever the password: it does not go on to verify,
\* holds no User, and the table is unchanged.
C6_UnknownUserNotFound ==
    [][\A c \in Calls :
         ( /\ pc[c] \in {"idle", "done", "panicked"} /\ Stepped(c)
           /\ op'[c] = "login"
           /\ Rows(users, username'[c]) = {} )
         => /\ pc'[c] = "done"
            /\ result'[c] = NotFound
            /\ user'[c] = NoUser
            /\ users' = users
      ]_vars

C6_Witness ==
    \E c \in Calls :
        /\ op[c] = "login" /\ pc[c] = "done"
        /\ user[c] = NoUser
        /\ result[c] = NotFound
        /\ users # {}
        /\ Rows(users, username[c]) = {}

\* C7: a register whose hashing failed has returned HashingFailure as its
\* result value, and holds no hash it could insert.
C7_HashingFailureReturned ==
    \A c \in Calls :
        (op[c] = "register" /\ pc[c] = "panicked")
        => /\ result[c].kind = "HashingFailure"
           /\ password_hash[c] = <<>>

\* C8: a register that returned a User returned one with the call's username
\* and a password_hash that is not the plaintext and verifies against it, and
\* that very row is in the table.
C8_RegisterReturnsHashedUser ==
    \A c \in Calls :
        (op[c] = "register" /\ Finished(c) /\ result[c].kind = "Ok")
        => /\ result[c].user.username = username[c]
           /\ result[c].user.password_hash # password[c]
           /\ verify_password(result[c].user.password_hash, password[c])
                = [ok |-> TRUE, val |-> TRUE]
           /\ result[c].user \in users
           /\ ~pre[c].present

C8_Witness ==
    \E c \in Calls :
        /\ op[c] = "register" /\ pc[c] = "done" /\ result[c].kind = "Ok"
        /\ result[c].user.password_hash # password[c]
        /\ result[c].user \in users

\* C9: a login whose lookup found a row with a malformed password_hash has
\* returned HashingFailure as its result value.
C9_MalformedHashReturned ==
    \A c \in Calls :
        ( /\ op[c] = "login" /\ Finished(c)
          /\ user[c] # NoUser
          /\ ~bcrypt_wellformed(user[c].password_hash) )
        => result[c].kind = "HashingFailure"

\* C10: no step removes or changes a row of the users table (its id,
\* username and password_hash stay as inserted, and its id is never given to
\* another row), and a step of login leaves the whole table unchanged.
C10_RowsImmutable ==
    [][/\ \A r \in users :
            /\ r \in users'
            /\ \A s \in users' : (s.id = r.id \/ s.username = r.username) => s = r
       /\ \A c \in Calls :
            (op'[c] = "login" /\ Stepped(c)) => users' = users
      ]_vars

C10_Witness ==
    \E c \in Calls, d \in Calls :
        /\ c # d
        /\ op[c] = "register" /\ pc[c] = "done" /\ result[c] = UniqueViolation
        /\ op[d] = "login" /\ pc[d] = "done" /\ result[d].kind = "Ok"
        /\ Cardinality(users) = Cardinality(Usernames)

====
